---- MODULE Spec2Model ----
(***************************************************************************)
(* Model of the Rainbow Colored Sidebar plugin (src/main.ts).              *)
(*                                                                         *)
(* Strings are sequences of one-character strings, so that startsWith,     *)
(* split, the last-character read and the string concatenation of the      *)
(* source are computed on characters.  A tree node is identified by the    *)
(* data-path of its title element; dom maps the paths whose node is       *)
(* present to the node's classList, an insertion-ordered sequence.         *)
(***************************************************************************)
EXTENDS Integers, Sequences, FiniteSets, Bags, TLC

VARIABLES
    vault,            \* folder paths that exist in the vault
    dom,              \* [data-path -> classList] of the tree nodes present
    settings,         \* this.settings
    a11y,             \* document root carries data-rcs-a11y
    cssScheme,        \* scheme whose --rcs-color-N variables are on the root
    plugin,           \* "loaded" | "unloaded"
    mutationObserver, \* "undefined" | "observing" | "idle"
    mutationTimeout,  \* this.mutationTimeout: 0 (unset) or a timer id
    timers,           \* ids of the timeouts that are pending
    calls             \* bag of the async calls in flight

vars == <<vault, dom, settings, a11y, cssScheme, plugin, mutationObserver,
          mutationTimeout, timers, calls>>

-----------------------------------------------------------------------------
(* Bounds of the model.                                                    *)

MaxFolders == 17
MaxCalls == 2
MaxList == 2
MaxTimerId == 2

(* Program constants.                                                      *)

NumColors == 16

-----------------------------------------------------------------------------
(* Strings.                                                                *)

Range(s) == {s[k] : k \in 1..Len(s)}

DigitChars == <<"0", "1", "2", "3", "4", "5", "6", "7", "8", "9">>

IsDigit(c) == c \in Range(DigitChars)

DigitVal(c) == (CHOOSE k \in 1..Len(DigitChars) : DigitChars[k] = c) - 1

RECURSIVE NumberToString(_)
NumberToString(n) ==
    IF n < 10 THEN <<DigitChars[n + 1]>>
    ELSE NumberToString(n \div 10) \o <<DigitChars[(n % 10) + 1]>>

RECURSIVE StringToNumber(_)
StringToNumber(s) ==
    IF s = <<>> THEN 0
    ELSE 10 * StringToNumber(SubSeq(s, 1, Len(s) - 1)) + DigitVal(s[Len(s)])

IndexOfSlash(s) ==
    IF "/" \in Range(s) THEN CHOOSE k \in 1..Len(s) :
                                 s[k] = "/" /\ \A m \in 1..(k - 1) : s[m] # "/"
    ELSE 0

LastIndexOfSlash(s) ==
    IF "/" \in Range(s) THEN CHOOSE k \in 1..Len(s) :
                                 s[k] = "/" /\ \A m \in (k + 1)..Len(s) : s[m] # "/"
    ELSE 0

\* sub_folders[i].split("/")[0]
SplitFirst(s) ==
    IF IndexOfSlash(s) = 0 THEN s ELSE SubSeq(s, 1, IndexOfSlash(s) - 1)

StartsWithDot(s) == Len(s) > 0 /\ s[1] = "."

-----------------------------------------------------------------------------
(* String.prototype.localeCompare(b, undefined, {numeric: true,            *)
(* caseFirst: 'lower'}) on the characters the model uses: punctuation      *)
(* before digits before letters, and a run of digits compared as a number. *)

Collation == <<".", "/", "0", "1", "2", "3", "4", "5", "6", "7", "8", "9",
               "f", "x", "y">>

CharRank(c) == CHOOSE k \in 1..Len(Collation) : Collation[k] = c

RECURSIVE DigitRunLen(_)
DigitRunLen(s) ==
    IF s = <<>> \/ ~IsDigit(s[1]) THEN 0 ELSE 1 + DigitRunLen(Tail(s))

RECURSIVE localeCompare(_, _)
localeCompare(a, b) ==
    IF a = <<>> /\ b = <<>> THEN 0
    ELSE IF a = <<>> THEN -1
    ELSE IF b = <<>> THEN 1
    ELSE IF IsDigit(a[1]) /\ IsDigit(b[1]) THEN
        LET la == DigitRunLen(a)
            lb == DigitRunLen(b)
            na == StringToNumber(SubSeq(a, 1, la))
            nb == StringToNumber(SubSeq(b, 1, lb))
        IN  IF na < nb THEN -1
            ELSE IF na > nb THEN 1
            ELSE localeCompare(SubSeq(a, la + 1, Len(a)), SubSeq(b, lb + 1, Len(b)))
    ELSE IF CharRank(a[1]) < CharRank(b[1]) THEN -1
    ELSE IF CharRank(a[1]) > CharRank(b[1]) THEN 1
    ELSE localeCompare(Tail(a), Tail(b))

\* one insertion of the sort: p goes before the first folder it precedes
RECURSIVE InsertSorted(_, _)
InsertSorted(sorted, p) ==
    IF sorted = <<>> THEN <<p>>
    ELSE IF localeCompare(p, sorted[1]) < 0 THEN <<p>> \o sorted
    ELSE <<sorted[1]>> \o InsertSorted(Tail(sorted), p)

\* Array.prototype.sort with the comparator above
RECURSIVE SortFolders(_)
SortFolders(S) ==
    IF S = {} THEN <<>>
    ELSE LET p == CHOOSE q \in S : TRUE
         IN  InsertSorted(SortFolders(S \ {p}), p)

-----------------------------------------------------------------------------
(* The vault adapter.                                                      *)

Root == <<"/">>

ConfigDir == <<".", "o">>

FolderName(k) == <<"f">> \o NumberToString(k)

ChildX(p) == p \o <<"/", "x">>

ChildY(p) == p \o <<"/", "y">>

\* normalizePath of the argument of adapter.list: '' and '/' are the root
IsRootPath(p) == p = <<>> \/ p = Root

ParentOf(p) ==
    IF LastIndexOfSlash(p) = 0 THEN Root
    ELSE SubSeq(p, 1, LastIndexOfSlash(p) - 1)

FolderExists(v, p) == IsRootPath(p) \/ p \in v

\* (await adapter.list(p)).folders
ListFolders(v, p) ==
    {q \in v : ParentOf(q) = (IF IsRootPath(p) THEN Root ELSE p)}

-----------------------------------------------------------------------------
(* The tree nodes and their classList.                                     *)

Item(n) == <<"rcs-item", n>>

SubItem == <<"rcs-sub-item", 0>>

\* classList.add: a class already present is not added again
ClassListAdd(cl, c) == IF c \in Range(cl) THEN cl ELSE Append(cl, c)

\* document.querySelector(`[data-path="${p}"]`)?.parentElement?.classList.add(c)
AddClass(d, p, c) ==
    IF p \in DOMAIN d THEN [d EXCEPT ![p] = ClassListAdd(@, c)] ELSE d

\* resetFolderStyling: every class of the plugin starts with rcs-
ResetFolderStyling(d) == [p \in DOMAIN d |-> <<>>]

\* (i % 16) + 1 for the 0-based position i
ClassIndex(i) == (i % NumColors) + 1

\* the loop over the sorted root folders; folders[k] is at position k - 1
RECURSIVE StyleFolders(_, _, _)
StyleFolders(d, folders, k) ==
    IF k > Len(folders) THEN d
    ELSE StyleFolders(AddClass(d, folders[k], Item(ClassIndex(k - 1))), folders, k + 1)

\* the sorted root folders when the filter on the leading dot is left out
VisibleRootFoldersUnfiltered(v) == SortFolders(ListFolders(v, Root))

\* the root folders that are not hidden, sorted
VisibleRootFolders(v) ==
    SortFolders({p \in ListFolders(v, Root) : ~StartsWithDot(p)})

StyleRoot(d, v) == StyleFolders(d, VisibleRootFolders(v), 1)

\* Array.from(classList).filter(item => item.includes('rcs-item'))
ItemClasses(cl) == SelectSeq(cl, LAMBDA c : c[1] = "rcs-item")

\* the class name `rcs-item-${n}`
ClassName(c) == <<"r", "c", "s", "-", "i", "t", "e", "m", "-">> \o NumberToString(c[2])

\* Number(parent_rcs_index[parent_rcs_index.length - 1] + 1): the last
\* character plus 1 is a string concatenation
NewRcsIndex(c) ==
    LET name == ClassName(c)
    IN  StringToNumber(<<name[Len(name)]>> \o NumberToString(1))

\* the index of a sub-folder when the final + 1 is left out
SubClassIndexZeroBased(new, j) == (new + 1 + j) % NumColors

\* ((new_rcs_index + 1 + j) % 16) + 1
SubClassIndex(new, j) == ((new + 1 + j) % NumColors) + 1

\* the loop over ext; ext[k] is at position j = k - 1
RECURSIVE StyleSubFolders(_, _, _, _)
StyleSubFolders(d, ext, new, k) ==
    IF k > Len(ext) THEN d
    ELSE StyleSubFolders(
             AddClass(AddClass(d, ext[k], Item(SubClassIndex(new, k - 1))), ext[k], SubItem),
             ext, new, k + 1)

\* parentElement exists and carries a class that includes rcs-item
HasParentIndex(d, entry) ==
    /\ SplitFirst(entry) \in DOMAIN d
    /\ ItemClasses(d[SplitFirst(entry)]) # <<>>

\* the body of the loop over sub_folders once ext is listed
StyleIndependent(d, entry, ext) ==
    IF ~HasParentIndex(d, entry) THEN d
    ELSE StyleSubFolders(d, ext, NewRcsIndex(ItemClasses(d[SplitFirst(entry)])[1]), 1)

\* the orders in which the adapter may return a listing
Orderings(S) ==
    {s \in [1..Cardinality(S) -> S] : \A a, b \in 1..Cardinality(S) : a # b => s[a] # s[b]}

ListedSubFolders(v, p) == {q \in ListFolders(v, p) : q # ConfigDir}

-----------------------------------------------------------------------------
(* Timers and the mutation observer.                                       *)

\* clearTimeout(id): an id that is not pending is ignored
ClearTimeout(tm, id) == tm \ {id}

\* the id setTimeout returns: one that no pending timeout has
FreshTimerId(tm) == CHOOSE id \in 1..MaxTimerId : id \notin tm /\
                        \A other \in 1..MaxTimerId : other \notin tm => id <= other

\* the timeouts pending when the callback does not clear the old one
AfterNoClear(tm, mt) == tm

\* the timeouts pending once the observer callback has cleared the old one
AfterClear(tm, mt) == IF mt # 0 THEN ClearTimeout(tm, mt) ELSE tm

\* the MutationObserver callback (childList and subtree changes only)
ObserverCallback ==
    /\ \E id \in 1..MaxTimerId : id \notin AfterClear(timers, mutationTimeout)
    /\ mutationTimeout' = FreshTimerId(AfterClear(timers, mutationTimeout))
    /\ timers' = AfterClear(timers, mutationTimeout)
                     \cup {FreshTimerId(AfterClear(timers, mutationTimeout))}

\* a change of the child list under .nav-files-container
TreeMutated ==
    IF mutationObserver = "observing" THEN ObserverCallback
    ELSE UNCHANGED <<mutationTimeout, timers>>

\* registerFileTreeObserver; observe throws when the container is missing
RegisterFileTreeObserver ==
    \E container \in BOOLEAN :
        mutationObserver' = IF container THEN "observing" ELSE "idle"

-----------------------------------------------------------------------------
(* The async calls.  A call is at the await it is suspended at:            *)
(*   saveData   saveSettings awaits saveData                               *)
(*   listRoot   setFolderStyling awaits adapter.list('/')                  *)
(*   listSub    setFolderStyling awaits adapter.list(sub_folders[i]);      *)
(*              arg is the path that was passed, i the 1-based index       *)
(* fn is the function that was called from outside: boot, saveSettings or  *)
(* the timeout handler.                                                    *)

Call(fn, pc, i, arg) == [fn |-> fn, pc |-> pc, i |-> i, arg |-> arg]

InFlight == BagToSet(calls)

CanCall == BagCardinality(calls) < MaxCalls

\* the call of setFolderStyling up to its first await
SetFolderStylingCall(fn) == Call(fn, "listRoot", 0, Root)

\* setColorScheme without the else branch that removes the attribute
SetColorSchemeA11yKept(s, cur) == IF s.increaseContrast THEN TRUE ELSE cur

\* setColorScheme: the attribute follows settings.increaseContrast
SetColorSchemeA11y(s, cur) == IF s.increaseContrast THEN TRUE ELSE FALSE

SetColorScheme ==
    /\ cssScheme' = settings.scheme
    /\ a11y' = SetColorSchemeA11y(settings, a11y)

\* the end of a call: boot goes on to registerFileTreeObserver
Returns(c) ==
    /\ calls' = calls (-) SetToBag({c})
    /\ IF c.fn = "boot" THEN RegisterFileTreeObserver
       ELSE UNCHANGED mutationObserver

\* a rejected await ends the call: nothing after it runs
Throws(c) ==
    /\ calls' = calls (-) SetToBag({c})
    /\ UNCHANGED mutationObserver

\* the next await of the loop over sub_folders, or the end of the call
NextSubFolder(c, i) ==
    IF i <= Len(settings.folderList)
    THEN /\ calls' = (calls (-) SetToBag({c}))
                         (+) SetToBag({Call(c.fn, "listSub", i, settings.folderList[i])})
         /\ UNCHANGED mutationObserver
    ELSE Returns(c)

\* boot, from onLayoutReady and from layout-change
Boot ==
    /\ plugin = "loaded"
    /\ CanCall
    /\ SetColorScheme
    /\ calls' = calls (+) SetToBag({SetFolderStylingCall("boot")})
    /\ UNCHANGED <<vault, dom, settings, plugin, mutationObserver, mutationTimeout, timers>>

\* a timeout handler that starts no run
TimerFiresIdle ==
    \E id \in timers :
        /\ timers' = timers \ {id}
        /\ UNCHANGED <<vault, dom, settings, a11y, cssScheme, plugin, mutationObserver,
                       mutationTimeout, calls>>

\* the timeout handler
TimerFires ==
    \E id \in timers :
        /\ CanCall
        /\ timers' = timers \ {id}
        /\ calls' = calls (+) SetToBag({SetFolderStylingCall("timer")})
        /\ UNCHANGED <<vault, dom, settings, a11y, cssScheme, plugin, mutationObserver,
                       mutationTimeout>>

\* saveSettings up to await saveData; the stored data is the host's
SaveSettingsCall == Call("saveSettings", "saveData", 0, Root)

\* saveSettings from saveData on: setColorScheme, resetFolderStyling and
\* the call of setFolderStyling
SaveDataDone ==
    \E c \in InFlight :
        /\ c.pc = "saveData"
        /\ SetColorScheme
        /\ dom' = ResetFolderStyling(dom)
        /\ calls' = (calls (-) SetToBag({c})) (+) SetToBag({SetFolderStylingCall(c.fn)})
        /\ UNCHANGED <<vault, settings, plugin, mutationObserver, mutationTimeout, timers>>

\* setFolderStyling from the root listing to the next await
ListRootDone ==
    \E c \in InFlight :
        /\ c.pc = "listRoot"
        /\ dom' = StyleRoot(dom, vault)
        /\ NextSubFolder(c, 1)
        /\ UNCHANGED <<vault, settings, a11y, cssScheme, plugin, mutationTimeout, timers>>

\* adapter.list of a folder that does not exist: the promise rejects
ListSubFails ==
    \E c \in InFlight :
        /\ c.pc = "listSub"
        /\ ~FolderExists(vault, c.arg)
        /\ Throws(c)
        /\ UNCHANGED <<vault, dom, settings, a11y, cssScheme, plugin, mutationTimeout, timers>>

\* setFolderStyling from a sub-folder listing to the next await (a listing
\* of a missing folder that does not reject is empty).  sub_folders[i] is
\* read again after the await; the list may have shrunk, and
\* undefined.split throws
ListSubDone ==
    \E c \in InFlight :
        /\ c.pc = "listSub"
        /\ IF c.i > Len(settings.folderList)
           THEN /\ Throws(c)
                /\ UNCHANGED dom
           ELSE /\ IF HasParentIndex(dom, settings.folderList[c.i])
                   THEN \E ext \in Orderings(ListedSubFolders(vault, c.arg)) :
                            dom' = StyleIndependent(dom, settings.folderList[c.i], ext)
                   ELSE UNCHANGED dom
                /\ NextSubFolder(c, c.i + 1)
        /\ UNCHANGED <<vault, settings, a11y, cssScheme, plugin, mutationTimeout, timers>>

-----------------------------------------------------------------------------
(* The settings tab.                                                       *)

Schemes == {"csDefault", "csOther"}

\* the folders of the concurrent specifications
Folders == {FolderName(1), FolderName(2), ChildX(FolderName(1))}

\* what the search field of a list entry is set to
PathChoices == {FolderName(1), FolderName(2)}

RemoveAt(list, i) == SubSeq(list, 1, i - 1) \o SubSeq(list, i + 1, Len(list))

\* every handler that saves ends with the call of saveSettings
StartSave ==
    /\ plugin = "loaded"
    /\ CanCall
    /\ calls' = calls (+) SetToBag({SaveSettingsCall})
    /\ UNCHANGED <<vault, dom, a11y, cssScheme, plugin, mutationObserver,
                   mutationTimeout, timers>>

\* changeColorScheme
ChangeColorScheme ==
    \E value \in Schemes :
        /\ settings' = [settings EXCEPT !.scheme = value]
        /\ StartSave

\* the onChange handler of the contrast toggle
ToggleContrast ==
    \E value \in BOOLEAN :
        /\ settings' = [settings EXCEPT !.increaseContrast = value]
        /\ StartSave

\* the plus button: push('') and display(), nothing is saved
AddFolder ==
    /\ plugin = "loaded"
    /\ Len(settings.folderList) < MaxList
    /\ settings' = [settings EXCEPT !.folderList = Append(@, <<>>)]
    /\ UNCHANGED <<vault, dom, a11y, cssScheme, plugin, mutationObserver,
                   mutationTimeout, timers, calls>>

\* the onChange handler of the search field of entry i
EditFolder ==
    \E i \in 1..Len(settings.folderList), value \in PathChoices :
        /\ settings' = [settings EXCEPT !.folderList[i] = value]
        /\ StartSave

\* the trash button of entry i: splice(i, 1), saveSettings() and display()
RemoveFolder ==
    \E i \in 1..Len(settings.folderList) :
        /\ settings' = [settings EXCEPT !.folderList = RemoveAt(@, i)]
        /\ StartSave

-----------------------------------------------------------------------------
(* The host: the vault, the file explorer and the plugin's life cycle.     *)

Descendants(v, p) ==
    {q \in v : Len(q) > Len(p) /\ SubSeq(q, 1, Len(p) + 1) = p \o <<"/">>}

\* a folder is created and the explorer inserts its node
CreateFolder ==
    \E p \in Folders \ vault :
        /\ FolderExists(vault, ParentOf(p))
        /\ vault' = vault \cup {p}
        /\ dom' = [q \in DOMAIN dom \cup {p} |-> IF q = p THEN <<>> ELSE dom[q]]
        /\ TreeMutated
        /\ UNCHANGED <<settings, a11y, cssScheme, plugin, mutationObserver, calls>>

\* a folder is deleted with what it contains; the explorer renders its
\* list again, without the nodes of the deleted folders
DeleteFolder ==
    \E p \in vault :
        /\ vault' = vault \ ({p} \cup Descendants(vault, p))
        /\ dom' = [q \in DOMAIN dom \ ({p} \cup Descendants(vault, p)) |-> dom[q]]
        /\ TreeMutated
        /\ UNCHANGED <<settings, a11y, cssScheme, plugin, mutationObserver, calls>>

\* scrolling or expanding renders a node: a new element without classes
NodeAppears ==
    \E p \in vault \ DOMAIN dom :
        /\ dom' = [q \in DOMAIN dom \cup {p} |-> IF q = p THEN <<>> ELSE dom[q]]
        /\ TreeMutated
        /\ UNCHANGED <<vault, settings, a11y, cssScheme, plugin, mutationObserver, calls>>

\* scrolling or collapsing removes a node
NodeDisappears ==
    \E p \in DOMAIN dom :
        /\ dom' = [q \in DOMAIN dom \ {p} |-> dom[q]]
        /\ TreeMutated
        /\ UNCHANGED <<vault, settings, a11y, cssScheme, plugin, mutationObserver, calls>>

\* onunload; disconnect on an observer that was never created throws and
\* the rest of onunload does not run
Unload ==
    /\ plugin = "loaded"
    /\ plugin' = "unloaded"
    /\ IF mutationObserver = "undefined"
       THEN UNCHANGED <<dom, a11y, cssScheme, mutationObserver>>
       ELSE /\ mutationObserver' = "idle"
            /\ cssScheme' = "none"
            /\ a11y' = FALSE
            /\ dom' = ResetFolderStyling(dom)
    /\ UNCHANGED <<vault, settings, mutationTimeout, timers, calls>>

-----------------------------------------------------------------------------
(* SpecIndexer: one run of setFolderStyling, started by the timeout        *)
(* handler, on a tree without classes.  The vault has the root folders     *)
(* f1 .. fn, possibly the configuration folder, and at most one entry in   *)
(* settings.folderList, whose folder has up to two sub-folders.            *)

DefaultSettings == [scheme |-> "csDefault", increaseContrast |-> FALSE, folderList |-> <<>>]

IndexerEntries(n) ==
    {<<>>, Root, ChildX(FolderName(n))} \cup {FolderName(k) : k \in 1..n}

\* the folders a path lies in
RECURSIVE Ancestors(_)
Ancestors(p) ==
    IF ParentOf(p) = Root THEN {} ELSE {ParentOf(p)} \cup Ancestors(ParentOf(p))

IndexerVault(n, dot, kids) ==
    {FolderName(k) : k \in 1..n} \cup (IF dot THEN {ConfigDir} ELSE {})
        \cup kids \cup UNION {Ancestors(q) : q \in kids}

InitIndexer ==
    \E n \in 0..MaxFolders, dot \in BOOLEAN, listed \in BOOLEAN :
        \E entry \in IndexerEntries(n) :
            \E kids \in (IF IsRootPath(entry) THEN {{}}
                         ELSE {{}, {ChildX(entry)}, {ChildX(entry), ChildY(entry)}}) :
                \E hidden \in {{}, {SplitFirst(entry)}, {ChildX(entry)}} :
                    /\ vault = IndexerVault(n, dot, kids)
                    /\ dom = [p \in IndexerVault(n, dot, kids) \ hidden |-> <<>>]
                    /\ settings = [DefaultSettings EXCEPT
                                       !.folderList = IF listed THEN <<entry>> ELSE <<>>]
                    /\ a11y = FALSE
                    /\ cssScheme = "csDefault"
                    /\ plugin = "loaded"
                    /\ mutationObserver = "observing"
                    /\ mutationTimeout = 1
                    /\ timers = {1}
                    /\ calls = EmptyBag

NextIndexer == TimerFires \/ ListRootDone \/ ListSubFails \/ ListSubDone

SpecIndexer == InitIndexer /\ [][NextIndexer]_vars

IndexerDone == timers = {} /\ calls = EmptyBag

\* 0-based position of root folder p among the sorted, not dot-prefixed
\* root folders
Position(p) ==
    Cardinality({q \in vault : ParentOf(q) = Root /\ ~StartsWithDot(q)
                               /\ localeCompare(q, p) < 0})

\* C1: after a run on a tree without classes, every root folder whose node
\* is present carries exactly rcs-item-((i mod 16)+1), i being its position
\* in the sorted list of the root folders that do not start with a dot;
\* a dot-prefixed root folder carries no class.
C1_RootFolderIndex ==
    IndexerDone =>
        \A p \in DOMAIN dom :
            ParentOf(p) = Root =>
                dom[p] = IF StartsWithDot(p) THEN <<>>
                         ELSE <<Item((Position(p) % NumColors) + 1)>>

C1_Witness ==
    /\ IndexerDone
    /\ ConfigDir \in DOMAIN dom
    /\ \E p \in DOMAIN dom : Position(p) = NumColors /\ dom[p] = <<Item(1)>>
    /\ \E p \in DOMAIN dom : SubItem \in Range(dom[p])

\* C2: every rcs-item-N class on a tree node has N in 1..16.
C2_IndexInRange ==
    \A p \in DOMAIN dom :
        \A c \in Range(dom[p]) : c[1] = "rcs-item" => c[2] \in 1..NumColors

C2_Witness ==
    /\ \E p \in DOMAIN dom : Item(NumColors) \in Range(dom[p])
    /\ \E p \in DOMAIN dom :
           SubItem \in Range(dom[p]) /\ ItemClasses(dom[p]) # <<>>

Neighbours(p) ==
    {p, IF p = 1 THEN NumColors ELSE p - 1, IF p = NumColors THEN 1 ELSE p + 1}

\* C4: the first child of a folder listed in settings.folderList gets an
\* index that differs from the index p of the folder's top-level ancestor
\* and from the indices p-1 and p+1 (cyclic in 1..16) of its neighbours.
C4_NoColorConflict ==
    (IndexerDone /\ settings.folderList # <<>>) =>
        LET entry == settings.folderList[1]
            ancestor == SplitFirst(entry)
        IN  \A child \in ListedSubFolders(vault, entry) :
                (/\ ListedSubFolders(vault, entry) = {child}
                 /\ child \in DOMAIN dom
                 /\ ancestor \in DOMAIN dom
                 /\ dom[ancestor] # <<>>
                 /\ ItemClasses(dom[child]) # <<>>)
                    => ItemClasses(dom[child])[1][2] \notin Neighbours(dom[ancestor][1][2])

-----------------------------------------------------------------------------
(* The state after onload: the settings are loaded, nothing has run.       *)

InitLoaded(v, s) ==
    /\ vault = v
    /\ dom = [p \in v |-> <<>>]
    /\ settings = s
    /\ a11y = FALSE
    /\ cssScheme = "none"
    /\ plugin = "loaded"
    /\ mutationObserver = "undefined"
    /\ mutationTimeout = 0
    /\ timers = {}
    /\ calls = EmptyBag

\* the vaults over Folders: a folder is in a folder that exists
Vaults == {v \in SUBSET Folders : \A p \in v : FolderExists(v, ParentOf(p))}

\* the folder lists the stored data may hold
RECURSIVE FolderLists(_)
FolderLists(n) ==
    IF n = 0 THEN {<<>>}
    ELSE FolderLists(n - 1)
             \cup {Append(l, p) : l \in {m \in FolderLists(n - 1) : Len(m) = n - 1},
                                  p \in PathChoices}

NoSaveInFlight == \A c \in InFlight : c.fn # "saveSettings"

Quiescent == timers = {} /\ calls = EmptyBag

-----------------------------------------------------------------------------
(* SpecSettings: the contrast toggle and the scheme radios, with           *)
(* overlapping saveSettings calls, on a vault that does not change.        *)

InitSettings ==
    \E contrast \in BOOLEAN, scheme \in Schemes :
        InitLoaded({FolderName(1)},
                   [DefaultSettings EXCEPT !.increaseContrast = contrast,
                                           !.scheme = scheme])

NextSettings ==
    \/ Boot
    \/ ChangeColorScheme
    \/ ToggleContrast
    \/ SaveDataDone
    \/ ListRootDone
    \/ Unload

SpecSettings == InitSettings /\ [][NextSettings]_vars

\* C5: once every started saveSettings call has completed, the root carries
\* data-rcs-a11y exactly when settings.increaseContrast is true (while the
\* plugin is loaded and setColorScheme has run).
C5_ContrastAttribute ==
    (plugin = "loaded" /\ cssScheme # "none" /\ NoSaveInFlight)
        => (a11y <=> settings.increaseContrast)

\* no boot has run (the observer would exist), so the attribute was set by
\* saveSettings calls, all of which have returned
C5_Witness ==
    /\ plugin = "loaded"
    /\ calls = EmptyBag
    /\ mutationObserver = "undefined"
    /\ cssScheme = "csOther"
    /\ settings.scheme = "csOther"
    /\ a11y
    /\ settings.increaseContrast

-----------------------------------------------------------------------------
(* SpecWatch: the mutation observer and the debounce timer, with layout    *)
(* changes, vault and tree changes and the unload.                         *)

InitWatch == \E v \in Vaults : InitLoaded(v, DefaultSettings)

NextWatch ==
    \/ Boot
    \/ ListRootDone
    \/ TimerFires
    \/ CreateFolder
    \/ DeleteFolder
    \/ NodeAppears
    \/ NodeDisappears
    \/ Unload

SpecWatch == InitWatch /\ [][NextWatch]_vars

(* SpecDebounce: the same on a vault of one folder whose node is scrolled  *)
(* in and out.  A pending timeout expires once tree changes stop, and an   *)
(* awaited listing completes; the limit on the calls in flight is the      *)
(* model's, so the expiry is taken with strong fairness.                   *)

InitDebounce == InitLoaded({FolderName(1)}, DefaultSettings)

NextDebounce ==
    \/ Boot
    \/ ListRootDone
    \/ TimerFires
    \/ NodeAppears
    \/ NodeDisappears
    \/ Unload

SpecDebounce ==
    InitDebounce /\ [][NextDebounce]_vars /\ SF_vars(TimerFires) /\ WF_vars(ListRootDone)

\* a run of setFolderStyling that the timeout handler has just started
TimerRunStarted ==
    /\ timers = {}
    /\ \E c \in InFlight : c.fn = "timer" /\ c.pc = "listRoot"

C7_OneTimerPending ==
    /\ Cardinality(timers) <= 1
    /\ timers \subseteq {mutationTimeout}

\* a timeout is pending again while the run of an earlier one and the boot
\* of a layout change are in flight
C7_Witness ==
    /\ timers = {mutationTimeout}
    /\ mutationObserver = "observing"
    /\ \E c \in InFlight : c.fn = "timer"
    /\ \E c \in InFlight : c.fn = "boot"

-----------------------------------------------------------------------------
(* What one run of setFolderStyling leaves on a tree without classes: a    *)
(* set, since a listing has no fixed order and a rejected listing ends     *)
(* the run.                                                                *)

RECURSIVE CleanSubFolders(_, _, _, _)
CleanSubFolders(d, v, list, i) ==
    IF i > Len(list) THEN {d}
    ELSE (IF FolderExists(v, list[i]) THEN {} ELSE {d})
         \cup UNION {CleanSubFolders(StyleIndependent(d, list[i], ext), v, list, i + 1) :
                         ext \in IF HasParentIndex(d, list[i])
                                 THEN Orderings(ListedSubFolders(v, list[i]))
                                 ELSE {<<>>}}

CleanRunResults(v, s, nodes) ==
    CleanSubFolders(StyleRoot([p \in nodes |-> <<>>], v), v, s.folderList, 1)

-----------------------------------------------------------------------------
(* SpecSave: the folder list editor.  The vault and the tree do not        *)
(* change; layout changes and saveSettings calls overlap.                  *)

InitSave ==
    \E list \in FolderLists(MaxList) :
        InitLoaded(Folders, [DefaultSettings EXCEPT !.folderList = list])

NextSave ==
    \/ Boot
    \/ AddFolder
    \/ EditFolder
    \/ RemoveFolder
    \/ SaveDataDone
    \/ ListRootDone
    \/ ListSubDone

SpecSave == InitSave /\ [][NextSave]_vars

\* C8: when a saveSettings call returns and no call is left in flight, the
\* classes on the tree are those of one run of setFolderStyling on a tree
\* without classes, under the current settings.
C8_SaveGivesCleanState ==
    [][((\E c \in InFlight : c.fn = "saveSettings") /\ calls' = EmptyBag)
           => dom' \in CleanRunResults(vault', settings', DOMAIN dom')]_vars

-----------------------------------------------------------------------------
(* Spec: the plugin's life cycle, the watcher, the vault and tree changes  *)
(* and saveSettings calls (from the contrast toggle) on the vaults over    *)
(* Folders, with at most one entry in the stored folder list.              *)

Init ==
    \E v \in Vaults, list \in FolderLists(1) :
        InitLoaded(v, [DefaultSettings EXCEPT !.folderList = list])

Next ==
    \/ Boot
    \/ Unload
    \/ ToggleContrast
    \/ SaveDataDone
    \/ ListRootDone
    \/ ListSubDone
    \/ ListSubFails
    \/ TimerFires
    \/ CreateFolder
    \/ DeleteFolder
    \/ NodeAppears
    \/ NodeDisappears

Spec == Init /\ [][Next]_vars

\* C3: in a quiescent state, with the observer registered, the classes on
\* the tree nodes are a function of the vault's folders and the settings:
\* they are what a run on a tree without classes gives for them.
C3_Deterministic ==
    (plugin = "loaded" /\ mutationObserver = "observing" /\ Quiescent)
        => dom \in CleanRunResults(vault, settings, DOMAIN dom)

\* C9: once the plugin is unloaded and no timeout or call is pending, no
\* tree node carries a class of the plugin.
C9_UnloadIsFinal ==
    (plugin = "unloaded" /\ Quiescent) => \A p \in DOMAIN dom : dom[p] = <<>>

\* C10: each tree node carries at most one rcs-item-N class.
C10_OneItemClass == \A p \in DOMAIN dom : Len(ItemClasses(dom[p])) <= 1

====
